---- MODULE Spec2Model ----
(***************************************************************************)
(* binmorphopy.morphology: binary dilation, erosion, opening and closing   *)
(* of boolean images of rank 1-3, with the perimeter-restricted spreading  *)
(* pass.  A boolean array is a record [shape, data]: shape is the tuple of *)
(* axis extents, data the set of index tuples (0-based) whose cell is      *)
(* True.  Python's None is NoneVal.                                        *)
(***************************************************************************)
EXTENDS Integers, Sequences, FiniteSets, TLC

VARIABLES
    image,      \* the image argument of the call
    selem,      \* the selem argument of the call (NoneVal: omitted)
    out,        \* the caller's out buffer (NoneVal: omitted), as it is now
    out0,       \* the contents of the caller's out buffer when the call began
    ret,        \* the value the call returned
    err,        \* the exception the call ended in, "none" when it returned
    op,         \* the function that was called
    pc,         \* "ready": about to call; "spread": in the loop; "done"
    fed,        \* the function whose result was passed on as the present image
    pending,    \* spreading pass: perimeter coordinates not yet processed
    bufs,       \* spreading pass: the buffer of each part of the coordinates
    idx         \* the arguments of a call of _generate_array_indices

vars == <<image, selem, out, out0, ret, err, op, pc, fed, pending, bufs, idx>>

----------------------------------------------------------------------------
(* Bounds of the model *)

\* rank-1 images have lengths 1..MaxLen1
MaxLen1 == 5
\* rank-2 and rank-3 images have axis extents 1..MaxLen
MaxLen == 3
\* every content is drawn for a shape of at most MaxCells cells
MaxCells == 9
\* larger shapes: contents at most MaxFlip cells away from all-False or all-True
MaxFlip == 1
\* calls with a supplied element: every content is drawn for an image shape of
\* at most MaxCellsSelem cells, and rank-3 images have extents 1..MaxLen3Selem
MaxCellsSelem == 6
MaxLen3Selem == 2
\* supplied elements: every 3-per-axis element of at most MaxSelemCells true cells
MaxSelemCells == 3
\* supplied rank-3 elements: every 3x3x3 element of at most MaxSelemCells3 cells
MaxSelemCells3 == 1
\* calls with an out buffer: images of rank 1-3 have at most MaxCellsOut cells
\* and rank-4 images at most MaxCells4 cells
MaxCellsOut == 4
MaxCells4 == 2
\* spreading pass in parts: images have at most MaxCellsSpread cells
MaxCellsSpread == 4
\* _generate_array_indices: image axis lengths 1..MaxAxis
MaxAxis == 7
\* _generate_array_indices: element radii 0..MaxRadius
MaxRadius == 3
\* spreading pass: number of parts the perimeter coordinates are split into
MaxParts == 2

----------------------------------------------------------------------------
(* Arrays *)

NoneVal == [none |-> TRUE]

Array(shape, data) == [shape |-> shape, data |-> data]

Max(a, b) == IF a > b THEN a ELSE b

Min(a, b) == IF a < b THEN a ELSE b

\* the index tuples of an array of this shape
Coords(shape) ==
    CASE Len(shape) = 1 -> {<<x>> : x \in 0..(shape[1] - 1)}
      [] Len(shape) = 2 -> {<<x, y>> : x \in 0..(shape[1] - 1), y \in 0..(shape[2] - 1)}
      [] Len(shape) = 3 -> {<<x, y, z>> : x \in 0..(shape[1] - 1), y \in 0..(shape[2] - 1),
                                          z \in 0..(shape[3] - 1)}
      [] Len(shape) = 4 -> {<<x, y, z, w>> : x \in 0..(shape[1] - 1), y \in 0..(shape[2] - 1),
                                             z \in 0..(shape[3] - 1), w \in 0..(shape[4] - 1)}

\* ~image: a new array, the argument is not written
Invert(a) == Array(a.shape, Coords(a.shape) \ a.data)

\* image.copy()
Copy(a) == Array(a.shape, a.data)

\* a cell with one index moved by d
Shift(c, a, d) == [c EXCEPT ![a] = c[a] + d]

\* the number of cells of an array of this shape
Size(shape) ==
    CASE Len(shape) = 1 -> shape[1]
      [] Len(shape) = 2 -> shape[1] * shape[2]
      [] Len(shape) = 3 -> shape[1] * shape[2] * shape[3]
      [] Len(shape) = 4 -> shape[1] * shape[2] * shape[3] * shape[4]

\* the k-th index tuple in row-major order, the order in which np.where
\* lists coordinates
CoordAt(k, shape) ==
    CASE Len(shape) = 1 -> <<k>>
      [] Len(shape) = 2 -> <<k \div shape[2], k % shape[2]>>
      [] Len(shape) = 3 -> <<k \div (shape[2] * shape[3]), (k \div shape[3]) % shape[2],
                             k % shape[3]>>

\* a slice bound b of an axis of length n, as basic slicing resolves it:
\* a negative bound counts from the end, and every bound is clipped to 0..n
SliceBound(b, n) == IF b < 0 THEN Max(b + n, 0) ELSE Min(b, n)

\* the indices a[b:e] selects on an axis of length n
SliceIndices(b, e, n) == SliceBound(b, n)..(SliceBound(e, n) - 1)

----------------------------------------------------------------------------
(* _generate_array_indices *)

generate_array_indices_unshifted(selem_center, selem_radius, selem_length, result_length) ==
    LET result_begin0 == selem_center - selem_radius
        result_end == selem_center + selem_radius + 1
    IN  [result_begin |-> Max(0, result_begin0),
         result_end |-> result_end,
         selem_begin |-> 0,
         selem_end |-> IF result_end > result_length
                         THEN selem_length - (result_end - result_length)
                         ELSE selem_length]

generate_array_indices_unclipped(selem_center, selem_radius, selem_length, result_length) ==
    LET result_begin0 == selem_center - selem_radius
        result_end == selem_center + selem_radius + 1
    IN  [result_begin |-> result_begin0,
         result_end |-> result_end,
         selem_begin |-> IF result_begin0 < 0 THEN -result_begin0 ELSE 0,
         selem_end |-> IF result_end > result_length
                         THEN selem_length - (result_end - result_length)
                         ELSE selem_length]

generate_array_indices(selem_center, selem_radius, selem_length, result_length) ==
    LET result_begin0 == selem_center - selem_radius
        result_end == selem_center + selem_radius + 1
        selem_begin == IF result_begin0 < 0 THEN -result_begin0 ELSE 0
        result_begin == Max(0, result_begin0)
        selem_end == IF result_end > result_length
                       THEN selem_length - (result_end - result_length)
                       ELSE selem_length
    IN  [result_begin |-> result_begin, result_end |-> result_end,
         selem_begin |-> selem_begin, selem_end |-> selem_end]

----------------------------------------------------------------------------
(* _get_perimeter_image *)

\* the value of a boolean cell in a comparison with a number
CellValue(img, c) == IF c \in img.data THEN 1 ELSE 0

\* count[c] after the shifted additions along every axis of the image
Count(img, c) ==
    LET along(a) ==
            (IF c[a] >= 1 THEN CellValue(img, Shift(c, a, -1)) ELSE 0)
          + (IF c[a] <= img.shape[a] - 2 THEN CellValue(img, Shift(c, a, 1)) ELSE 0)
    IN  CASE Len(img.shape) = 1 -> along(1)
          [] Len(img.shape) = 2 -> along(1) + along(2)
          [] Len(img.shape) = 3 -> along(1) + along(2) + along(3)

\* index i of an axis of length n is one of the indices [0, -1]
FirstOrLast(i, n) == i = 0 \/ i = n - 1

Inner1(img, c) ==
    \/ CellValue(img, c) = 2
    \/ FirstOrLast(c[1], img.shape[1]) /\ Count(img, c) = 1

Inner2(img, c) ==
    LET e1 == FirstOrLast(c[1], img.shape[1])
        e2 == FirstOrLast(c[2], img.shape[2])
    IN  \/ Count(img, c) = 4
        \/ (e1 \/ e2) /\ Count(img, c) = 3
        \/ (e1 /\ e2) /\ Count(img, c) = 2

Inner3_edges_at_four(img, c) ==
    LET e1 == FirstOrLast(c[1], img.shape[1])
        e2 == FirstOrLast(c[2], img.shape[2])
        e3 == FirstOrLast(c[3], img.shape[3])
    IN  \/ Count(img, c) = 6
        \/ (e1 \/ e2 \/ e3) /\ Count(img, c) = 5
        \/ (e1 \/ e2 \/ e3) /\ Count(img, c) = 4
        \/ (e1 /\ e2 /\ e3) /\ Count(img, c) = 3

Inner3(img, c) ==
    LET e1 == FirstOrLast(c[1], img.shape[1])
        e2 == FirstOrLast(c[2], img.shape[2])
        e3 == FirstOrLast(c[3], img.shape[3])
    IN  \/ Count(img, c) = 6
        \/ (e1 \/ e2 \/ e3) /\ Count(img, c) = 5
        \/ ((e1 /\ e2) \/ (e2 /\ e3) \/ (e1 /\ e3)) /\ Count(img, c) = 4
        \/ (e1 /\ e2 /\ e3) /\ Count(img, c) = 3

Inner(img, c) ==
    CASE Len(img.shape) = 1 -> Inner1(img, c)
      [] Len(img.shape) = 2 -> Inner2(img, c)
      [] Len(img.shape) = 3 -> Inner3(img, c)

get_perimeter_image(img) ==
    IF Len(img.shape) > 3
    THEN [err |-> "RuntimeError", val |-> NoneVal]
    ELSE [err |-> "none",
          val |-> Array(img.shape, {c \in img.data : ~Inner(img, c)})]

----------------------------------------------------------------------------
(* binary_dilation *)

\* the structuring element used when selem is None
DefaultSelem(dim) ==
    CASE dim = 1 -> Array(<<3>>, {<<x>> : x \in 0..2})
      [] dim = 2 -> Array(<<3, 3>>, {<<1, y>> : y \in 0..2} \cup {<<x, 1>> : x \in 0..2})
      [] dim = 3 -> Array(<<3, 3, 3>>,
                          {<<x, 1, 1>> : x \in 0..2} \cup {<<1, y, 1>> : y \in 0..2}
                              \cup {<<1, 1, z>> : z \in 0..2})
      [] OTHER -> NoneVal

\* any([num_pixels % 2 == 0 for num_pixels in selem.shape])
HasEvenExtent(sel) == \E a \in 1..Len(sel.shape) : sel.shape[a] % 2 = 0

\* the two slices of one axis for the perimeter cell with index i on it
AxisSlices(i, s, l) ==
    LET g == generate_array_indices(i, s \div 2, s, l)
    IN  [j_b |-> SliceBound(g.result_begin, l),
         J |-> SliceIndices(g.result_begin, g.result_end, l),
         k_b |-> SliceBound(g.selem_begin, s),
         K |-> SliceIndices(g.selem_begin, g.selem_end, s)]

\* the slices of every axis for the perimeter cell c
Slices(c, shape, sel) ==
    [a \in 1..Len(shape) |-> AxisSlices(c[a], sel.shape[a], shape[a])]

\* the index tuple with the entries f[1], ..., f[n]
Tuple(f, n) ==
    CASE n = 1 -> <<f[1]>>
      [] n = 2 -> <<f[1], f[2]>>
      [] n = 3 -> <<f[1], f[2], f[3]>>

\* the cells of out[jx_b:jx_e, ...] for the perimeter cell c
Window(c, shape, sel) ==
    UNION {{j \in Coords(shape) : \A a \in 1..Len(shape) : j[a] \in sl[a].J} :
              sl \in {Slices(c, shape, sel)}}

\* the cells of the window that selem[kx_b:kx_e, ...] sets: the n-th cell of the
\* one slice is paired with the n-th cell of the other on every axis
Written(c, shape, sel) ==
    UNION {{Tuple([a \in 1..Len(shape) |-> k[a] - sl[a].k_b + sl[a].j_b], Len(shape)) :
               k \in {k \in sel.data :
                         \A a \in 1..Len(shape) :
                             /\ k[a] \in sl[a].K
                             /\ k[a] - sl[a].k_b + sl[a].j_b \in sl[a].J}} :
              sl \in {Slices(c, shape, sel)}}

SpreadOneAssign(buf, c, sel) ==
    Array(buf.shape, (buf.data \ Window(c, buf.shape, sel)) \cup Written(c, buf.shape, sel))

\* out[...] |= selem[...] for one perimeter cell
SpreadOne(buf, c, sel) ==
    Array(buf.shape, buf.data \cup Written(c, buf.shape, sel))

\* the loop over perimeter_coords from the k-th cell on, in row-major order
RECURSIVE SpreadAll(_, _, _, _)
SpreadAll(buf, coords, sel, k) ==
    IF k >= Size(buf.shape) THEN buf
    ELSE LET c == CoordAt(k, buf.shape)
         IN  SpreadAll(IF c \in coords THEN SpreadOne(buf, c, sel) ELSE buf,
                       coords, sel, k + 1)

SeedOutMissing(img, o) == o

\* out[:] = image[:]
SeedOut(img, o) == Array(o.shape, img.data)

OutOnErrorSeeded(img, o) == IF o = NoneVal THEN o ELSE SeedOut(img, o)

\* the caller's buffer when the call raises: the checks precede the seeding
OutOnError(img, o) == o

binary_dilation(img, sel, o) ==
    LET dim == Len(img.shape)
        se == IF sel = NoneVal THEN DefaultSelem(dim) ELSE sel
    IN  IF sel # NoneVal /\ HasEvenExtent(sel)
        THEN [err |-> "ValueError", ret |-> NoneVal, out |-> OutOnError(img, o)]
        ELSE LET p == get_perimeter_image(img)
             IN  IF p.err # "none"
                 THEN [err |-> p.err, ret |-> NoneVal, out |-> OutOnError(img, o)]
                 ELSE LET seeded == IF o = NoneVal THEN Copy(img) ELSE SeedOut(img, o)
                          done == SpreadAll(seeded, p.val.data, se, 0)
                      IN  IF o = NoneVal
                          THEN [err |-> "none", ret |-> done, out |-> NoneVal]
                          ELSE [err |-> "none", ret |-> NoneVal, out |-> done]

----------------------------------------------------------------------------
(* binary_erosion, binary_closing, binary_opening *)

binary_erosion_uninverted(img, sel, o) ==
    LET r == binary_dilation(img, sel, o)
    IN  IF r.err # "none" THEN r
        ELSE IF o = NoneVal
        THEN [err |-> "none", ret |-> Invert(r.ret), out |-> NoneVal]
        ELSE [err |-> "none", ret |-> NoneVal, out |-> Invert(r.out)]

binary_erosion(img, sel, o) ==
    LET r == binary_dilation(Invert(img), sel, o)
    IN  IF r.err # "none" THEN r
        ELSE IF o = NoneVal
        THEN [err |-> "none", ret |-> Invert(r.ret), out |-> NoneVal]
        ELSE [err |-> "none", ret |-> NoneVal, out |-> Invert(r.out)]

binary_closing(img, sel, o) ==
    LET d == binary_dilation(img, sel, NoneVal)
    IN  IF d.err # "none"
        THEN [err |-> d.err, ret |-> NoneVal, out |-> o]
        ELSE binary_erosion(d.ret, sel, o)

binary_opening(img, sel, o) ==
    LET e == binary_erosion(img, sel, NoneVal)
    IN  IF e.err # "none"
        THEN [err |-> e.err, ret |-> NoneVal, out |-> o]
        ELSE binary_dilation(e.ret, sel, o)

----------------------------------------------------------------------------
(* The inputs the calls are made with *)

RECURSIVE SmallSubsets(_, _)
\* the subsets of S with at most k elements
SmallSubsets(S, k) ==
    IF k = 0 THEN {{}}
    ELSE LET prev == SmallSubsets(S, k - 1)
         IN  prev \cup {q \cup {x} : q \in prev, x \in S}

\* the contents drawn for a shape: all of them for a small shape, and for a
\* larger one those at most MaxFlip cells away from all-False or all-True
Contents(shape) ==
    LET cs == Coords(shape)
    IN  IF Cardinality(cs) <= MaxCells THEN SUBSET cs
        ELSE LET few == SmallSubsets(cs, MaxFlip)
             IN  few \cup {cs \ d : d \in few}

ImagesOf(shapes) == UNION {{Array(s, d) : d \in Contents(s)} : s \in shapes}

Shapes1 == {<<l>> : l \in 1..MaxLen1}

Shapes2 == {<<a, b>> : a \in 1..MaxLen, b \in 1..MaxLen}

Shapes3 == {<<a, b, c>> : a \in 1..MaxLen, b \in 1..MaxLen, c \in 1..MaxLen}

----------------------------------------------------------------------------
(* The calls *)

\* the call of a public function returns or raises
Finish(name, r) ==
    /\ pc = "ready"
    /\ pc' = "done"
    /\ op' = name
    /\ ret' = r.ret
    /\ err' = r.err
    /\ out' = r.out
    /\ UNCHANGED <<image, selem, out0, fed, pending, bufs, idx>>

Dilation == Finish("binary_dilation", binary_dilation(image, selem, out))

Erosion == Finish("binary_erosion", binary_erosion(image, selem, out))

Closing == Finish("binary_closing", binary_closing(image, selem, out))

Opening == Finish("binary_opening", binary_opening(image, selem, out))

Perimeter ==
    /\ pc = "ready"
    /\ pc' = "done"
    /\ op' = "_get_perimeter_image"
    /\ ret' = get_perimeter_image(image).val
    /\ err' = get_perimeter_image(image).err
    /\ UNCHANGED <<image, selem, out, out0, fed, pending, bufs, idx>>

----------------------------------------------------------------------------
(* Calls without a structuring element and without an out buffer *)

Init ==
    /\ image \in ImagesOf(Shapes1 \cup Shapes2 \cup Shapes3)
    /\ selem = NoneVal
    /\ out = NoneVal
    /\ out0 = NoneVal
    /\ ret = NoneVal
    /\ err = "none"
    /\ op = "none"
    /\ pc = "ready"
    /\ fed = "none"
    /\ pending = {}
    /\ bufs = <<>>
    /\ idx = NoneVal

Next == Dilation \/ Erosion \/ Perimeter

Spec == Init /\ [][Next]_vars

----------------------------------------------------------------------------
(* Calls with a supplied structuring element, and a second call on the result *)

\* the image of a shape with at most n cells, all contents; of a larger one,
\* the contents near all-False or all-True
ContentsUpTo(shape, n) ==
    LET cs == Coords(shape)
    IN  IF Cardinality(cs) <= n THEN SUBSET cs
        ELSE LET few == SmallSubsets(cs, MaxFlip)
             IN  few \cup {cs \ d : d \in few}

ImagesUpTo(shapes, n) == UNION {{Array(s, d) : d \in ContentsUpTo(s, n)} : s \in shapes}

\* skimage.morphology.disk(2), the element of the tests
Disk2 == Array(<<5, 5>>,
               {c \in Coords(<<5, 5>>) : (c[1] - 2) * (c[1] - 2) + (c[2] - 2) * (c[2] - 2) <= 4})

\* np.ones(shape=[5, 5]), the element of the tests
Square5 == Array(<<5, 5>>, Coords(<<5, 5>>))

\* a 3x5 element whose footprint is orthogonally connected and holds its centre
\* (1,2), and reaches the offset (+1,+1) only around the offsets (0,+1), (+1,0)
Hook == Array(<<3, 5>>, {<<0, 2>>, <<0, 3>>, <<0, 4>>, <<1, 2>>, <<1, 4>>, <<2, 3>>, <<2, 4>>})

\* np.ones(shape=[3, 3, 3])
Cube3 == Array(<<3, 3, 3>>, Coords(<<3, 3, 3>>))

Selems1 ==
    {Array(<<1>>, d) : d \in SUBSET Coords(<<1>>)}
        \cup {Array(<<3>>, d) : d \in SUBSET Coords(<<3>>)}
        \cup {Array(<<5>>, d) : d \in SUBSET Coords(<<5>>)}

Selems2 ==
    {Array(<<3, 3>>, d) : d \in SmallSubsets(Coords(<<3, 3>>), MaxSelemCells)}
        \cup {DefaultSelem(2), Disk2, Square5, Hook}

Selems3 ==
    {Array(<<3, 3, 3>>, d) : d \in SmallSubsets(Coords(<<3, 3, 3>>), MaxSelemCells3)}
        \cup {DefaultSelem(3), Cube3}

SelemsFor(dim) ==
    CASE dim = 1 -> Selems1
      [] dim = 2 -> Selems2
      [] dim = 3 -> Selems3

Shapes3Selem ==
    {<<a, b, c>> : a \in 1..MaxLen3Selem, b \in 1..MaxLen3Selem, c \in 1..MaxLen3Selem}

InitSelem ==
    /\ image \in ImagesUpTo(Shapes1 \cup Shapes2 \cup Shapes3Selem, MaxCellsSelem)
    /\ selem \in SelemsFor(Len(image.shape))
    /\ out = NoneVal
    /\ out0 = NoneVal
    /\ ret = NoneVal
    /\ err = "none"
    /\ op = "none"
    /\ pc = "ready"
    /\ fed = "none"
    /\ pending = {}
    /\ bufs = <<>>
    /\ idx = NoneVal

\* the caller passes the result of an opening or closing on as the next image
Feed ==
    /\ pc = "done"
    /\ err = "none"
    /\ fed = "none"
    /\ op \in {"binary_opening", "binary_closing"}
    /\ out = NoneVal
    /\ image' = ret
    /\ fed' = op
    /\ op' = "none"
    /\ ret' = NoneVal
    /\ pc' = "ready"
    /\ UNCHANGED <<selem, out, out0, err, pending, bufs, idx>>

NextSelem == Dilation \/ Erosion \/ Opening \/ Closing \/ Feed

SpecSelem == InitSelem /\ [][NextSelem]_vars

----------------------------------------------------------------------------
(* Calls with a caller-supplied out buffer, valid and invalid arguments *)

\* np.ones(shape)
Ones(shape) == Array(shape, Coords(shape))

\* the shapes of a rank with extents 1..n and at most m cells
ShapesUpTo(dim, n, m) ==
    {sh \in CASE dim = 1 -> {<<a>> : a \in 1..n}
              [] dim = 2 -> {<<a, b>> : a \in 1..n, b \in 1..n}
              [] dim = 3 -> {<<a, b, c>> : a \in 1..n, b \in 1..n, c \in 1..n}
              [] dim = 4 -> {<<a, b, c, d>> : a \in 1..n, b \in 1..n, c \in 1..n, d \in 1..n} :
        Size(sh) <= m}

ImagesOut ==
    UNION {{Array(sh, d) : d \in SUBSET Coords(sh)} :
              sh \in ShapesUpTo(1, MaxCellsOut, MaxCellsOut)
                       \cup ShapesUpTo(2, MaxCellsOut, MaxCellsOut)
                       \cup ShapesUpTo(3, MaxCellsOut, MaxCellsOut)
                       \cup ShapesUpTo(4, MaxCells4, MaxCells4)}

\* elements with an even extent
EvenSelems(dim) ==
    CASE dim = 1 -> {Ones(<<2>>), Ones(<<4>>)}
      [] dim = 2 -> {Ones(<<2, 2>>), Ones(<<3, 2>>), Ones(<<2, 3>>)}
      [] dim = 3 -> {Ones(<<2, 3, 3>>), Ones(<<3, 3, 2>>)}
      [] dim = 4 -> {Ones(<<2, 3, 3, 3>>), Ones(<<3, 3, 3, 2>>)}

\* elements with odd extents
OddSelems(dim) ==
    CASE dim = 1 -> {Array(<<3>>, d) : d \in SUBSET Coords(<<3>>)}
      [] dim = 2 -> {DefaultSelem(2), Ones(<<3, 3>>), Array(<<3, 3>>, {<<0, 0>>, <<1, 1>>}),
                     Array(<<3, 3>>, {<<1, 2>>})}
      [] dim = 3 -> {DefaultSelem(3), Cube3, Array(<<3, 3, 3>>, {<<0, 1, 1>>})}
      [] dim = 4 -> {Ones(<<3, 3, 3, 3>>), Ones(<<1, 1, 1, 1>>)}

InitOut ==
    /\ image \in ImagesOut
    /\ selem \in {NoneVal} \cup OddSelems(Len(image.shape)) \cup EvenSelems(Len(image.shape))
    /\ out \in {NoneVal} \cup {Array(image.shape, d) : d \in SUBSET Coords(image.shape)}
    /\ out0 = out
    /\ ret = NoneVal
    /\ err = "none"
    /\ op = "none"
    /\ pc = "ready"
    /\ fed = "none"
    /\ pending = {}
    /\ bufs = <<>>
    /\ idx = NoneVal

NextOut == Dilation \/ Erosion \/ Closing \/ Opening

SpecOut == InitOut /\ [][NextOut]_vars

----------------------------------------------------------------------------
(* Calls of _generate_array_indices *)

InitIdx ==
    /\ idx \in {[selem_center |-> c, selem_radius |-> r, selem_length |-> 2 * r + 1,
                 result_length |-> l] :
                   c \in 0..(MaxAxis - 1), r \in 0..MaxRadius, l \in 1..MaxAxis}
    /\ idx.selem_center < idx.result_length
    /\ image = NoneVal
    /\ selem = NoneVal
    /\ out = NoneVal
    /\ out0 = NoneVal
    /\ ret = NoneVal
    /\ err = "none"
    /\ op = "none"
    /\ pc = "ready"
    /\ fed = "none"
    /\ pending = {}
    /\ bufs = <<>>

Indices ==
    /\ pc = "ready"
    /\ pc' = "done"
    /\ op' = "_generate_array_indices"
    /\ ret' = generate_array_indices(idx.selem_center, idx.selem_radius, idx.selem_length,
                                     idx.result_length)
    /\ UNCHANGED <<image, selem, out, out0, err, fed, pending, bufs, idx>>

NextIdx == Indices

SpecIdx == InitIdx /\ [][NextIdx]_vars

----------------------------------------------------------------------------
(* The spreading pass of binary_dilation, one perimeter coordinate at a time, *)
(* in any order and split into parts with a buffer each                       *)

SelemsSpread(dim) ==
    CASE dim = 1 -> {NoneVal, Array(<<3>>, {<<0>>, <<1>>}), Ones(<<5>>)}
      [] dim = 2 -> {NoneVal, Disk2, Array(<<3, 3>>, {<<0, 0>>, <<1, 1>>})}
      [] dim = 3 -> {NoneVal, Cube3}

InitSpread ==
    /\ image \in UNION {{Array(sh, d) : d \in SUBSET Coords(sh)} :
                           sh \in ShapesUpTo(1, MaxCellsSpread, MaxCellsSpread)
                                    \cup ShapesUpTo(2, MaxCellsSpread, MaxCellsSpread)
                                    \cup ShapesUpTo(3, MaxCellsSpread, MaxCellsSpread)}
    /\ selem \in SelemsSpread(Len(image.shape))
    /\ out = NoneVal
    /\ out0 = NoneVal
    /\ ret = NoneVal
    /\ err = "none"
    /\ op = "none"
    /\ pc = "ready"
    /\ fed = "none"
    /\ pending = {}
    /\ bufs = <<>>
    /\ idx = NoneVal

\* the perimeter is computed and every part gets a copy of the seeded buffer
SpreadStart ==
    /\ pc = "ready"
    /\ pc' = "spread"
    /\ op' = "binary_dilation"
    /\ pending' = get_perimeter_image(image).val.data
    /\ bufs' = [w \in 1..MaxParts |-> Copy(image)]
    /\ UNCHANGED <<image, selem, out, out0, ret, err, fed, idx>>

\* one part processes one of the remaining perimeter coordinates
SpreadStep ==
    /\ pc = "spread"
    /\ \E c \in pending, w \in 1..MaxParts :
          /\ bufs' = [bufs EXCEPT ![w] =
                         SpreadOne(bufs[w], c,
                                   IF selem = NoneVal THEN DefaultSelem(Len(image.shape))
                                   ELSE selem)]
          /\ pending' = pending \ {c}
    /\ UNCHANGED <<image, selem, out, out0, ret, err, op, pc, fed, idx>>

\* the buffers of the parts are merged by OR
SpreadMerge ==
    /\ pc = "spread"
    /\ pending = {}
    /\ pc' = "done"
    /\ ret' = Array(image.shape, UNION {bufs[w].data : w \in 1..MaxParts})
    /\ UNCHANGED <<image, selem, out, out0, err, op, fed, pending, bufs, idx>>

NextSpread == SpreadStart \/ SpreadStep \/ SpreadMerge

SpecSpread == InitSpread /\ [][NextSpread]_vars

----------------------------------------------------------------------------
(* Reference notions the claims are stated with *)

InBounds(c, shape) == \A a \in 1..Len(shape) : 0 <= c[a] /\ c[a] < shape[a]

\* the in-bounds immediate axis-neighbours of a cell
Neighbours(c, shape) ==
    {n \in {Shift(c, a, d) : a \in 1..Len(shape), d \in {-1, 1}} : InBounds(n, shape)}

\* C1: binary_dilation(X) without a structuring element is the reference
\* dilation with the rank's default element: a cell is true in the result iff
\* it is a foreground cell of X or an in-bounds orthogonal neighbour of one.
C1_DefaultDilationIsReference ==
    (pc = "done" /\ op = "binary_dilation" /\ selem = NoneVal) =>
        /\ err = "none"
        /\ ret = Array(image.shape,
                       {q \in Coords(image.shape) :
                           q \in image.data
                           \/ \E n \in Neighbours(q, image.shape) : n \in image.data})

C1_Witness ==
    /\ pc = "done" /\ op = "binary_dilation" /\ selem = NoneVal
    /\ Len(image.shape) = 3
    /\ \E c \in image.data : Inner(image, c) /\ FirstOrLast(c[1], image.shape[1])
    /\ \E c \in image.data : ~Inner(image, c) /\ c[2] = 0
    /\ ret.data # image.data

\* the rank-3 all-true 3x3x3 image
FullCube == Array(<<3, 3, 3>>, Coords(<<3, 3, 3>>))

\* C3 as stated: binary_erosion of the all-true 3x3x3 image with the default
\* element leaves only the centre voxel (1,1,1) true.
C3_ErosionOfFullCubeLeavesCentre ==
    (pc = "done" /\ op = "binary_erosion" /\ selem = NoneVal /\ image = FullCube) =>
        (err = "none" /\ ret = Array(<<3, 3, 3>>, {<<1, 1, 1>>}))

\* C3 as amended: binary_erosion of the all-true 3x3x3 image with the default
\* element returns the all-true image: all 27 voxels stay true, so the cells
\* outside the image count as foreground for erosion.
C3_ErosionOfFullCubeIsFull ==
    (pc = "done" /\ op = "binary_erosion" /\ selem = NoneVal /\ image = FullCube) =>
        (err = "none" /\ ret = FullCube)

C3_Witness ==
    /\ pc = "done" /\ op = "binary_erosion" /\ selem = NoneVal /\ image = FullCube
    /\ <<0, 0, 0>> \in ret.data
    /\ <<1, 1, 1>> \in ret.data

\* a foreground cell with an in-bounds background axis-neighbour
IsPerimeterCell(img, c) ==
    c \in img.data /\ \E n \in Neighbours(c, img.shape) : n \notin img.data

\* C8: _get_perimeter_image returns exactly the mask of perimeter cells: a
\* cell is true in the mask iff it is foreground and at least one of its
\* in-bounds immediate axis-neighbours is background.
C8_PerimeterMaskIsExact ==
    (pc = "done" /\ op = "_get_perimeter_image") =>
        /\ err = "none"
        /\ ret = Array(image.shape, {c \in Coords(image.shape) : IsPerimeterCell(image, c)})

\* the centre cell of a structuring element
Centre(sel) == [a \in 1..Len(sel.shape) |-> sel.shape[a] \div 2]

RECURSIVE Reachable(_, _)
\* the cells of S joined to the cells of R by orthogonal steps inside S
Reachable(R, S) ==
    LET more == {c \in S \ R :
                    \E a \in 1..Len(c), d \in {-1, 1} : Shift(c, a, d) \in R}
    IN  IF more = {} THEN R ELSE Reachable(R \cup more, S)

\* the footprint holds its centre and is orthogonally connected
ConnectedThroughCentre(sel) ==
    /\ Centre(sel) \in sel.data
    /\ Reachable({c \in sel.data : c = Centre(sel)}, sel.data) = sel.data

\* the union, over all foreground cells p, of the footprint centred at p and
\* clipped to the image
FootprintUnion(img, sel) ==
    {q \in Coords(img.shape) :
        \E p \in img.data, k \in sel.data :
            \A a \in 1..Len(img.shape) : q[a] = p[a] + k[a] - sel.shape[a] \div 2}

\* C2: for a supplied element with odd extents whose footprint holds its centre
\* and is orthogonally connected, binary_dilation(X, S) is the union over all
\* foreground cells of the footprint, clipped to the image.
C2_DilationIsFootprintUnion ==
    (pc = "done" /\ op = "binary_dilation" /\ selem # NoneVal
        /\ ConnectedThroughCentre(selem)) =>
        (err = "none" /\ ret = Array(image.shape, FootprintUnion(image, selem)))

\* C4: every true cell of binary_opening(X, S) is true in X, and every true
\* cell of X is true in binary_closing(X, S).
C4_OpeningBelowClosingAbove ==
    (pc = "done" /\ fed = "none" /\ selem # NoneVal) =>
        /\ op = "binary_opening" => (err = "none" /\ ret.data \subseteq image.data)
        /\ op = "binary_closing" => (err = "none" /\ image.data \subseteq ret.data)

\* C5: binary_opening applied to the result of binary_opening with the same
\* element returns that result again, and likewise binary_closing.
C5_OpeningClosingIdempotent ==
    (pc = "done" /\ op \in {"binary_opening", "binary_closing"} /\ fed = op) =>
        (err = "none" /\ ret = image)

\* the result record of the public function named f
Apply(f, img, sel, o) ==
    CASE f = "binary_dilation" -> binary_dilation(img, sel, o)
      [] f = "binary_erosion" -> binary_erosion(img, sel, o)
      [] f = "binary_closing" -> binary_closing(img, sel, o)
      [] f = "binary_opening" -> binary_opening(img, sel, o)

PublicFunctions == {"binary_dilation", "binary_erosion", "binary_closing", "binary_opening"}

\* C6: a call of any of the four operations with an element that has an even
\* extent, or with an image of rank 4 or more, ends in an error and leaves a
\* caller-supplied out buffer as it was before the call.
C6_InvalidCallLeavesOut ==
    (pc = "done" /\ op \in PublicFunctions
        /\ ((selem # NoneVal /\ HasEvenExtent(selem)) \/ Len(image.shape) >= 4)) =>
        (err # "none" /\ ret = NoneVal /\ out = out0)

C6_Witness ==
    /\ pc = "done" /\ op = "binary_closing" /\ err = "ValueError"
    /\ Len(image.shape) = 2
    /\ out0 # NoneVal /\ out0.data # image.data /\ out0.data # {}
    /\ out = out0

\* C7: a call with an out buffer returns nothing and leaves out equal, cell
\* for cell, to the image the same call returns when out is omitted, whatever
\* out held before.
C7_OutEqualsReturned ==
    (pc = "done" /\ op \in PublicFunctions /\ out0 # NoneVal /\ err = "none") =>
        /\ ret = NoneVal
        /\ Apply(op, image, selem, NoneVal).err = "none"
        /\ out = Apply(op, image, selem, NoneVal).ret

C7_Witness ==
    /\ pc = "done" /\ op = "binary_opening" /\ out0 # NoneVal /\ err = "none"
    /\ selem # NoneVal
    /\ \E c \in out0.data : c \notin out.data
    /\ \E c \in out.data : c \notin out0.data
    /\ out.data # image.data

\* C9 as stated: the ranges satisfy 0 <= result_begin <= result_end <= L,
\* 0 <= selem_begin <= selem_end <= s, have equal lengths, and
\* result_begin - selem_begin = c - r.
C9_RangesClippedAndAligned ==
    (pc = "done" /\ op = "_generate_array_indices") =>
        /\ 0 <= ret.result_begin /\ ret.result_begin <= ret.result_end
        /\ ret.result_end <= idx.result_length
        /\ 0 <= ret.selem_begin /\ ret.selem_begin <= ret.selem_end
        /\ ret.selem_end <= idx.selem_length
        /\ ret.result_end - ret.result_begin = ret.selem_end - ret.selem_begin
        /\ ret.result_begin - ret.selem_begin = idx.selem_center - idx.selem_radius

\* C9 as amended: result_end is c + r + 1, not clipped to L; the ranges
\* satisfy 0 <= result_begin <= result_end, result_begin < L,
\* 0 <= selem_begin <= selem_end <= s, the result range cut at L is as long as
\* the element range, and result_begin - selem_begin = c - r.
C9_RangesAlignedEndUnclipped ==
    (pc = "done" /\ op = "_generate_array_indices") =>
        /\ 0 <= ret.result_begin /\ ret.result_begin <= ret.result_end
        /\ ret.result_begin < idx.result_length
        /\ ret.result_end = idx.selem_center + idx.selem_radius + 1
        /\ 0 <= ret.selem_begin /\ ret.selem_begin <= ret.selem_end
        /\ ret.selem_end <= idx.selem_length
        /\ Min(ret.result_end, idx.result_length) - ret.result_begin
              = ret.selem_end - ret.selem_begin
        /\ ret.result_begin - ret.selem_begin = idx.selem_center - idx.selem_radius

C9_Witness ==
    /\ pc = "done" /\ op = "_generate_array_indices"
    /\ ret.selem_begin > 0
    /\ ret.result_end > idx.result_length
    /\ ret.selem_end < idx.selem_length

\* C10: in the spreading pass the final buffer is the same for every order of
\* the perimeter coordinates and every split of them into parts merged by OR
\* (it is the buffer the loop in np.where order produces), and no step turns
\* a cell of a buffer from true to false.
C10_SpreadOrderIndependent ==
    /\ [](pc = "done" => ret = binary_dilation(image, selem, NoneVal).ret)
    /\ [][pc = "spread" => \A w \in 1..MaxParts : bufs[w].data \subseteq bufs'[w].data]_vars

C10_Witness ==
    /\ pc = "done" /\ op = "binary_dilation"
    /\ bufs[1].data # image.data
    /\ bufs[2].data # image.data
    /\ ~(bufs[1].data \subseteq bufs[2].data)
    /\ ~(bufs[2].data \subseteq bufs[1].data)
    /\ ret.data # bufs[1].data

\* C11: for every image of rank 1-3 and every shape, axes of extent 1 or 2
\* included, the mask _get_perimeter_image returns has the image's shape,
\* holds no background cell and holds every foreground cell that has an
\* in-bounds background axis-neighbour; a cell is marked inner only where
\* its count of foreground neighbours is no less than the number of
\* neighbours it has inside the image.
C11_PerimeterMaskKeepsBoundary ==
    (pc = "done" /\ op = "_get_perimeter_image") =>
        /\ err = "none"
        /\ ret.shape = image.shape
        /\ ret.data \subseteq image.data
        /\ \A c \in image.data : IsPerimeterCell(image, c) => c \in ret.data
        /\ \A c \in Coords(image.shape) :
               Inner(image, c) =>
                   Cardinality(Neighbours(c, image.shape)) <= Count(image, c)

C11_Witness ==
    /\ pc = "done" /\ op = "_get_perimeter_image" /\ err = "none"
    /\ Len(image.shape) = 3
    /\ \E a \in 1..3 : image.shape[a] = 2
    /\ \E c \in image.data : IsPerimeterCell(image, c) /\ c \in ret.data
    /\ \E c \in image.data : c \notin ret.data

====
